---- MODULE Spec2Model ----
(***************************************************************************)
(* A model of useFormPersist (src/src/useFormPersist.ts): one form binding *)
(* that restores a persisted record on mount and mirrors the watched form  *)
(* values into a synchronous key-value store, immediately or debounced.    *)
(*                                                                         *)
(* A JavaScript object is a sequence of entries [k, v] with distinct keys  *)
(* (objects keep insertion order).  A JavaScript value is a tagged record: *)
(* Num(n) or Undefined.  A JSON text of an object is a sequence of entries *)
(* [k, v] whose v is the text of the value (a string).                     *)
(***************************************************************************)
EXTENDS Integers, Sequences, FiniteSets, TLC

\* ------------------------------------------------------------------ bounds

\* Date.now() at the start of a behaviour, and the last instant modelled.
StartTime == 3
MaxTime == 6
\* At most this many host timers are live at once.
MaxTimers == 2
\* At most this many re-renders with changed props in one behaviour.
MaxRerenders == 1

\* ------------------------------------------------------- JavaScript values

Undefined == [t |-> "undefined", n |-> 0]
Num(n) == [t |-> "number", n |-> n]

\* if (x) ... on an optional number: undefined and 0 are falsy.
Truthy(v) == v.t = "number" /\ v.n # 0
\* x != null
NotNullish(v) == v.t # "undefined"

Range(s) == {s[i] : i \in DOMAIN s}

Has(o, k) == \E i \in DOMAIN o : o[i].k = k
Get(o, k) == IF Has(o, k) THEN o[CHOOSE i \in DOMAIN o : o[i].k = k].v ELSE Undefined
ObjectKeys(o) == [i \in DOMAIN o |-> o[i].k]
\* o[k] = v: an existing key keeps its place, a new key goes last.
Assign(o, k, v) ==
  IF Has(o, k)
  THEN [i \in DOMAIN o |-> IF o[i].k = k THEN [k |-> k, v |-> v] ELSE o[i]]
  ELSE Append(o, [k |-> k, v |-> v])

\* ------------------------------------------------------------ input domains

FormFields == {"a", "b"}
FieldValues == {Num(1), Num(2), Undefined}
ReservedKey == "_savedAt"

FormEntries == [k : FormFields, v : FieldValues]
\* Every object over the form's fields, in every insertion order.
FormSnapshots ==
  {o \in UNION {[1..m -> FormEntries] : m \in 0..Cardinality(FormFields)} :
     \A i, j \in DOMAIN o : i # j => o[i].k # o[j].k}
\* A form that has a field named like the reserved metadata key.
ReservedNameSnapshots ==
  { <<[k |-> ReservedKey, v |-> Num(1)]>>,
    <<[k |-> "a", v |-> Num(1)], [k |-> ReservedKey, v |-> Num(2)]>> }
Snapshots == FormSnapshots \cup ReservedNameSnapshots
\* A form with the single field "a".
SmallSnapshots == { <<>>, <<[k |-> "a", v |-> Num(1)]>>, <<[k |-> "a", v |-> Num(2)]>> }
\* The snapshots useWatch can return for a form: "full" has every shape, "small" one field.
SnapshotsOf(fm) == IF fm = "full" THEN Snapshots ELSE SmallSnapshots
\* The form's values at the first render: no defaults, or a default for one field.
MountSnapshots == { <<>>, <<[k |-> "a", v |-> Num(2)]>> }

\* The name the form mounts with, and the names a later render can pass.
MountNames == {"f"}
Names == MountNames \cup {"g"}
ExcludeLists == { <<>>, <<"b">>, <<ReservedKey>> }
\* The exclude lists tried with a form: the small form can exclude its one field.
ExcludeListsOf(fm) == IF fm = "full" THEN ExcludeLists ELSE { <<>>, <<"a">> }
Timeouts == {Undefined, Num(0), Num(2)}
Delays == {0, 2}
\* debounceDelay <= 0, the negative case included.
NonPositiveDelays == {-1, 0}
\* The timeout and debounceDelay a later render can pass: none or a positive timeout,
\* a negative or a positive delay.
RerenderTimeouts == {Undefined, Num(2)}
RerenderDelays == {-1, 2}
\* validate, dirty, touch: the defaults and each flag alone.
RestoreFlags ==
  { f \in [validate : BOOLEAN, dirty : BOOLEAN, touch : BOOLEAN] :
      /\ ~(f.validate /\ f.dirty)
      /\ ~(f.validate /\ f.touch)
      /\ ~(f.dirty /\ f.touch) }

\* ----------------------------------------------------------------- JSON

\* JSON.stringify of a value: undefined has no text.
JSONstringifyValue(v) == IF v.t = "undefined" THEN "undefined" ELSE ToString(v.n)
\* JSON.stringify of an object: entries whose value is undefined are left out.
JSONstringify(o) ==
  LET kept == SelectSeq(o, LAMBDA e : e.v.t # "undefined")
  IN [i \in DOMAIN kept |-> [k |-> kept[i].k, v |-> JSONstringifyValue(kept[i].v)]]
JSONparseValue(tok) == Num(CHOOSE n \in 0..(MaxTime + 1) : ToString(n) = tok)
JSONparse(body) == [i \in DOMAIN body |-> [k |-> body[i].k, v |-> JSONparseValue(body[i].v)]]
\* structuredClone: a deep copy; values here are immutable, so the copy is equal.
structuredClone(o) == o

\* The ways a Storage Adapter can be failing: not at all, or in one operation.
FaultSets == { {}, {"getItem"}, {"setItem"}, {"removeItem"} }

\* What the Storage Adapter holds under a key.
Absent == [kind |-> "absent", body |-> <<>>]
Corrupt == [kind |-> "corrupt", body |-> <<>>]
Json(body) == [kind |-> "json", body |-> body]

\* Mutant: the key is the bare name.
getStorageKeyBare(nm) == nm
getStorageKey(nm) == "react-hook-form-persist:" \o nm
Keys == {getStorageKey(nm) : nm \in Names} \cup Names

\* Records another writer left in the store before the binding starts.
InitialRecords ==
  { Absent, Corrupt,
    Json(<<[k |-> "a", v |-> "1"], [k |-> "b", v |-> "2"]>>),
    Json(<<[k |-> "a", v |-> "1"], [k |-> ReservedKey, v |-> ToString(StartTime - 3)]>>),
    Json(<<[k |-> ReservedKey, v |-> ToString(StartTime - 2)], [k |-> "b", v |-> "2"]>>) }

VARIABLES
  phase,              \* "unmounted", "restored", "mounted", "crashed"
  name, exclude, timeout, debounceDelay,   \* the props of the current render
  debounceDelayProp,  \* debounceDelay as the config passes it: a number or undefined
  watchedValues,      \* useWatch's result in the current render
  debounceTimeoutRef, \* the last timer id, 0 for null
  isRestoringRef, isSavingRef, lastValuesRef, initializedRef,
  storage,            \* the Storage Adapter: key -> Absent, Corrupt or Json(body)
  timers,             \* the host's live timers, each with its callback's closure and
                      \* (history) the step that scheduled it
  now,                \* Date.now()
  calls,              \* the collaborator calls the last step made, in order
  event,              \* the last step taken
  restoreProps,       \* validate, dirty, touch and which callbacks the mounting render
                      \* passed: only the restore effect reads them, kept until its commit ends
  persisted,          \* history: the values object the last record written under each key was
                      \* stringified from, and whether that record is still there
  form,               \* which snapshots the form can produce: "full" or "small"
  rerenders,          \* how many re-renders with other props there have been
  raises,             \* the Storage Adapter operations that raise an exception for now
  storageOption,      \* the storage prop: "supplied" (the Storage Adapter above) or
                      \* "undefined"
  localStorage,       \* window.localStorage: key -> Absent, Corrupt or Json(body)
  other               \* a second binding on the same Storage Adapter and host: its props,
                      \* watched values, refs and timers, while the variables above hold
                      \* the binding that is running

vars == <<phase, name, exclude, timeout, debounceDelay, debounceDelayProp, watchedValues,
          debounceTimeoutRef, isRestoringRef, isSavingRef, lastValuesRef,
          initializedRef, storage, timers, now, calls, event, restoreProps, persisted,
          form, rerenders, raises, storageOption, localStorage, other>>

props == <<name, exclude, timeout, debounceDelay, debounceDelayProp>>
refs == <<debounceTimeoutRef, isRestoringRef, isSavingRef, lastValuesRef, initializedRef>>

\* The restore props outside a mount commit: the defaults, no callbacks.
NoRestoreProps ==
  [validate |-> FALSE, dirty |-> FALSE, touch |-> FALSE,
   onDataRestored |-> FALSE, onTimeout |-> FALSE]
RestorePropsSets ==
  { [validate |-> f.validate, dirty |-> f.dirty, touch |-> f.touch,
     onDataRestored |-> r, onTimeout |-> t] : f \in RestoreFlags, r \in BOOLEAN, t \in BOOLEAN }

NotPersisted == [present |-> FALSE, values |-> <<>>]
Persisted(values) == [present |-> TRUE, values |-> values]
Removed(p) == [present |-> FALSE, values |-> p.values]

\* Mutant: the storage prop is ignored and window.localStorage never used.
StorageIsNullishNever == FALSE
\* storage ?? window.localStorage: whether the left operand is null or undefined.
StorageIsNullish == storageOption = "undefined"
\* getStorage(): the contents of the store every operation goes to.
getStorage == IF StorageIsNullish THEN localStorage ELSE storage
\* The effect of setItem (a Json) or removeItem (Absent) on the store getStorage() returns.
PutItem(key, rec) ==
  IF StorageIsNullish
  THEN /\ localStorage' = [localStorage EXCEPT ![key] = rec]
       /\ UNCHANGED storage
  ELSE /\ storage' = [storage EXCEPT ![key] = rec]
       /\ UNCHANGED localStorage
\* A binding that is given a Storage Adapter, window.localStorage being empty.
StorageSupplied ==
  /\ storageOption = "supplied"
  /\ localStorage = [k \in Keys |-> Absent]

\* The session of a binding: everything that belongs to one call site of the hook.
Session ==
  [phase |-> phase, name |-> name, exclude |-> exclude, timeout |-> timeout,
   debounceDelay |-> debounceDelay, debounceDelayProp |-> debounceDelayProp,
   watchedValues |-> watchedValues,
   debounceTimeoutRef |-> debounceTimeoutRef, isRestoringRef |-> isRestoringRef,
   isSavingRef |-> isSavingRef, lastValuesRef |-> lastValuesRef,
   initializedRef |-> initializedRef, restoreProps |-> restoreProps, timers |-> timers]
\* A binding that has not mounted yet, with the props (nm, ex, to, dd).
Idle(nm, ex, to, dd) ==
  [phase |-> "unmounted", name |-> nm, exclude |-> ex, timeout |-> to,
   debounceDelay |-> dd, debounceDelayProp |-> Num(dd), watchedValues |-> <<>>,
   debounceTimeoutRef |-> 0, isRestoringRef |-> FALSE,
   isSavingRef |-> FALSE, lastValuesRef |-> <<>>,
   initializedRef |-> FALSE, restoreProps |-> NoRestoreProps, timers |-> {}]

\* --------------------------------------------------------- pure helpers

\* Array.prototype.sort on key names: UTF-16 code unit order ("_" < "a" < "b").
KeyOrder == <<ReservedKey, "a", "b">>
SortKeys(ks) == SelectSeq(KeyOrder, LAMBDA k : k \in Range(ks))

\* Mutant: the key lists are compared as Object.keys returns them, unsorted.
valuesHaveChangedUnsorted(newValues, lastValues) ==
  LET newKeys == ObjectKeys(newValues)
      lastKeys == ObjectKeys(lastValues)
  IN IF \/ Len(newKeys) # Len(lastKeys)
        \/ ~(\A i \in DOMAIN newKeys : newKeys[i] = lastKeys[i])
     THEN TRUE
     ELSE \E i \in DOMAIN newKeys :
            JSONstringifyValue(Get(newValues, newKeys[i]))
              # JSONstringifyValue(Get(lastValues, newKeys[i]))
valuesHaveChanged(newValues, lastValues) ==
  LET newKeys == SortKeys(ObjectKeys(newValues))
      lastKeys == SortKeys(ObjectKeys(lastValues))
  IN IF \/ Len(newKeys) # Len(lastKeys)
        \/ ~(\A i \in DOMAIN newKeys : newKeys[i] = lastKeys[i])
     THEN TRUE
     ELSE \E i \in DOMAIN newKeys :
            JSONstringifyValue(Get(newValues, newKeys[i]))
              # JSONstringifyValue(Get(lastValues, newKeys[i]))

\* const { _savedAt = null, ...values } = JSON.parse(storageRawValues)
SavedAtOf(parsed) == Get(parsed, ReservedKey)
\* Mutant: the parsed record is used whole, reserved key included.
ValuesOfWithSavedAt(parsed) == parsed
\* values: the rest of the parsed record once _savedAt is taken out.
ValuesOf(parsed) == SelectSeq(parsed, LAMBDA e : e.k # ReservedKey)
\* A number operand of "-": null and undefined count as 0 here.
ToNumber(v) == IF v.t = "number" THEN v.n ELSE 0
\* Mutant: a record as old as the timeout already counts as expired.
IsExpiredAtLimit(to, currTimestamp, savedAt) ==
  Truthy(to) /\ currTimestamp - ToNumber(savedAt) >= to.n
\* timeout && currTimestamp - _savedAt > timeout
IsExpired(to, currTimestamp, savedAt) ==
  Truthy(to) /\ currTimestamp - ToNumber(savedAt) > to.n

\* Mutant: shouldDirty and shouldTouch take each other's flag.
SetValueOptionsSwapped(flags) ==
  [shouldValidate |-> flags.validate, shouldDirty |-> flags.touch, shouldTouch |-> flags.dirty]
\* The options object of a restoring setValue call.
SetValueOptions(flags) ==
  [shouldValidate |-> flags.validate, shouldDirty |-> flags.dirty, shouldTouch |-> flags.touch]
\* Mutant: the restore ignores exclude.
RestoreSetValuesAll(values, ex, flags) ==
  [i \in DOMAIN values |->
     [op |-> "setValue", name |-> values[i].k, value |-> values[i].v,
      options |-> SetValueOptions(flags)]]
\* Mutant: the restore tests exclude the wrong way round.
RestoreSetValuesInverted(values, ex, flags) ==
  LET kept == SelectSeq(values, LAMBDA e : e.k \in Range(ex))
  IN [i \in DOMAIN kept |->
        [op |-> "setValue", name |-> kept[i].k, value |-> kept[i].v,
         options |-> SetValueOptions(flags)]]
\* Object.keys(values).forEach: one setValue per key that exclude does not name.
RestoreSetValues(values, ex, flags) ==
  LET kept == SelectSeq(values, LAMBDA e : ~(e.k \in Range(ex)))
  IN [i \in DOMAIN kept |->
        [op |-> "setValue", name |-> kept[i].k, value |-> kept[i].v,
         options |-> SetValueOptions(flags)]]

\* Mutant: saveToStorage copies every watched field.
FilterExcludedNone(w, ex) == w
\* The values saveToStorage builds from the watched values.
FilterExcluded(w, ex) ==
  IF Len(ex) > 0 THEN SelectSeq(w, LAMBDA e : ~(e.k \in Range(ex))) ELSE w
\* Mutant: the test for an empty snapshot is missing.
ShouldSaveEvenEmpty(values, lastValues) == valuesHaveChanged(values, lastValues)
\* Object.entries(values).length && valuesHaveChanged(values)
ShouldSave(values, lastValues) == Len(values) > 0 /\ valuesHaveChanged(values, lastValues)
\* Mutant: the stamp is added only for a truthy timeout.
StampWhenTruthy(values, to, t) ==
  IF Truthy(to) THEN Assign(values, ReservedKey, Num(t)) ELSE values
\* if (timeout != null) values._savedAt = Date.now()
Stamp(values, to, t) == IF NotNullish(to) THEN Assign(values, ReservedKey, Num(t)) ELSE values

\* ------------------------------------------------------------- operations

\* Before the first render, with one of the props (nm, ex, to, dd).
Start ==
  /\ phase = "unmounted"
  /\ name \in MountNames /\ exclude \in ExcludeListsOf(form)
  /\ timeout \in Timeouts
  /\ watchedValues = <<>>
  /\ debounceTimeoutRef = 0
  /\ isRestoringRef = FALSE /\ isSavingRef = FALSE
  /\ lastValuesRef = <<>> /\ initializedRef = FALSE
  /\ \E r \in InitialRecords :
       storage = [k \in Keys |-> IF k = getStorageKey(name) THEN r ELSE Absent]
  /\ timers = {}
  /\ now = StartTime
  /\ calls = <<>>
  /\ event = "init"
  /\ restoreProps = NoRestoreProps
  /\ persisted = [k \in Keys |-> NotPersisted]
  /\ rerenders = 0
  /\ raises = {}

\* The second binding when the behaviour is about one binding only: it never mounts.
NoOther == Idle("g", <<>>, Undefined, 0)

Init ==
  /\ form = "full"
  /\ Start
  /\ StorageSupplied
  /\ debounceDelay \in Delays
  /\ debounceDelayProp = Num(debounceDelay)
  /\ other = NoOther

\* Mutant: clear() removes the bare name, without the namespace prefix.
clearStorageBareName(nm) == nm
\* clearStorage: the key of getStorage().removeItem(getStorageKey())
clearStorageKey(nm) == getStorageKey(nm)

\* Mutant: the restore effect has no early return.
RestoreGuardMissing(initialized, restoring) == FALSE
\* if (initializedRef.current || isRestoringRef.current) return;
RestoreGuard(initialized, restoring) == initialized \/ restoring

\* Mutant: the restore effect never marks the binding initialized.
InitializedNeverSet == FALSE
\* initializedRef.current = true, the last line of the restore effect.
InitializedAfterRestore == TRUE

\* Mutant: the engine catches the exception.
RaiseCaught == <<>>
\* An exception leaves the running operation: no try/catch encloses an adapter call
\* or JSON.parse.
Raise == <<[op |-> "throw"]>>

\* Mutant: the restore effect does not test what getItem returned.
HasRawValueAlways(raw) == TRUE
\* if (storageRawValues): null, the answer for a key with no record, is falsy.
HasRawValue(raw) == raw.kind # "absent"

\* Mutant: lastValuesRef is assigned before the expiry test, so also for a record
\* that is then removed.
LastValuesWhenExpiredAssigned(last, values) == structuredClone(values)
\* lastValuesRef.current after the expiry branch (lines 79-80), which does not assign it.
LastValuesWhenExpired(last, values) == last

\* The body of the restore effect for the props (nm, ex, to) and the restore props rp,
\* in an instance whose initializedRef and lastValuesRef hold init and last.
RestoreEffect(nm, ex, to, rp, init, last) ==
       LET key == getStorageKey(nm)
           raw == getStorage[key]
           getItem == [op |-> "getItem", key |-> key]
           parsed == JSONparse(raw.body)
           values == ValuesOf(parsed)
       IN
       IF "getItem" \in raises THEN
         \* getItem throws out of the effect: the lines after it never run.
         /\ isRestoringRef' = TRUE
         /\ phase' = "crashed"
         /\ calls' = <<getItem>> \o Raise
         /\ initializedRef' = init /\ lastValuesRef' = last
         /\ UNCHANGED <<storage, localStorage, persisted>>
       ELSE IF ~HasRawValue(raw) THEN
         /\ isRestoringRef' = FALSE /\ initializedRef' = InitializedAfterRestore
         /\ phase' = "restored"
         /\ calls' = <<getItem>>
         /\ lastValuesRef' = last
         /\ UNCHANGED <<storage, localStorage, persisted>>
       ELSE IF raw.kind = "corrupt" THEN
         \* JSON.parse throws out of the effect: the lines after it never run.
         /\ isRestoringRef' = TRUE
         /\ phase' = "crashed"
         /\ calls' = <<getItem>> \o Raise
         /\ initializedRef' = init /\ lastValuesRef' = last
         /\ UNCHANGED <<storage, localStorage, persisted>>
       ELSE IF IsExpired(to, now, SavedAtOf(parsed)) THEN
         IF "removeItem" \in raises THEN
           \* clearStorage throws out of the effect.
           /\ isRestoringRef' = TRUE
           /\ phase' = "crashed"
           /\ calls' = <<getItem>>
                       \o (IF rp.onTimeout THEN <<[op |-> "onTimeout"]>> ELSE <<>>)
                       \o <<[op |-> "removeItem", key |-> clearStorageKey(nm)]>>
                       \o Raise
           /\ initializedRef' = init /\ lastValuesRef' = last
           /\ UNCHANGED <<storage, localStorage, persisted>>
         ELSE
           /\ isRestoringRef' = FALSE /\ initializedRef' = InitializedAfterRestore
           /\ phase' = "restored"
           /\ PutItem(clearStorageKey(nm), Absent)
           /\ persisted' = [persisted EXCEPT ![clearStorageKey(nm)] = Removed(@)]
           /\ calls' = <<getItem>>
                       \o (IF rp.onTimeout THEN <<[op |-> "onTimeout"]>> ELSE <<>>)
                       \o <<[op |-> "removeItem", key |-> clearStorageKey(nm)]>>
           /\ lastValuesRef' = LastValuesWhenExpired(last, values)
       ELSE
         /\ isRestoringRef' = FALSE /\ initializedRef' = InitializedAfterRestore
         /\ phase' = "restored"
         /\ lastValuesRef' = structuredClone(values)
         /\ calls' = <<getItem>>
                     \o RestoreSetValues(values, ex, rp)
                     \o (IF rp.onDataRestored
                         THEN <<[op |-> "onDataRestored", data |-> values]>> ELSE <<>>)
         /\ UNCHANGED <<storage, localStorage, persisted>>

\* A fresh binding mounts: the first render creates the refs, all at their initial
\* values (null, false, false, {}, false), and the commit runs the restore effect;
\* the save effect of the same commit is the next step.
Mount ==
  /\ phase = "unmounted"
  /\ ~RestoreGuard(FALSE, FALSE)
  /\ event' = "mount"
  /\ debounceTimeoutRef' = 0 /\ isSavingRef' = FALSE
  /\ UNCHANGED <<props, timers, now, form, storageOption, rerenders, raises, other>>
  /\ \E w \in MountSnapshots, rp \in RestorePropsSets :
       /\ watchedValues' = w
       /\ restoreProps' = rp
       /\ RestoreEffect(name, exclude, timeout, rp, FALSE, <<>>)

\* isSavingRef.current once setItem has thrown out of saveToStorage: the line that
\* clears the flag is never reached.
SavingAfterThrow == TRUE

\* saveToStorage with the closure (w, ex, to, nm) of the render that created it.
saveToStorage(w, ex, to, nm) ==
  LET values == FilterExcluded(w, ex)
      key == getStorageKey(nm)
      stamped == Stamp(values, to, now)
      setItem == [op |-> "setItem", key |-> key, value |-> JSONstringify(stamped)]
  IN IF isSavingRef
     THEN /\ UNCHANGED <<storage, localStorage, lastValuesRef, persisted, isSavingRef>>
          /\ calls' = <<>>
     ELSE IF ShouldSave(values, lastValuesRef)
     THEN IF "setItem" \in raises
          THEN /\ isSavingRef' = SavingAfterThrow
               /\ calls' = <<setItem>> \o Raise
               /\ UNCHANGED <<storage, localStorage, lastValuesRef, persisted>>
          ELSE /\ PutItem(key, Json(JSONstringify(stamped)))
               /\ lastValuesRef' = structuredClone(stamped)
               /\ persisted' = [persisted EXCEPT ![key] = Persisted(values)]
               /\ isSavingRef' = FALSE
               /\ calls' = <<setItem>>
     ELSE /\ UNCHANGED <<storage, localStorage, lastValuesRef, persisted>>
          /\ isSavingRef' = FALSE
          /\ calls' = <<>>
\* Whether that call of saveToStorage ends in an exception.
saveToStorageThrows(w, ex) ==
  ~isSavingRef /\ ShouldSave(FilterExcluded(w, ex), lastValuesRef) /\ "setItem" \in raises

\* isRestoringRef.current || !initializedRef.current || isSavingRef.current
shouldSkipSave == isRestoringRef \/ ~initializedRef \/ isSavingRef

\* Mutant: the pending timer is never cancelled.
ClearTimeoutForgotten(live, ref) == live
\* The live timers after clearTimeout(debounceTimeoutRef.current); null is 0, no timer's id.
ClearTimeout(live, ref) == {tm \in live : tm.id # ref}
\* Mutant: the save effect returns no cleanup.
EffectCleanupMissing(live, ref) == live
\* The live timers after the save effect's cleanup: the same clearTimeout.
EffectCleanup(live, ref) == ClearTimeout(live, ref)
\* Mutant: the host hands out the smallest id that no live timer has, even while a
\* binding still holds it from a timer that has fired.
NewTimerIdReused(live, held) ==
  CHOOSE i \in 1..(MaxTimers + 1) :
    /\ \A tm \in live : tm.id # i
    /\ \A j \in 1..(i - 1) : \E tm \in live : tm.id = j
\* The id setTimeout returns.  Hosts count timer ids upwards, so a new id equals no id
\* handed out before; what matters of an id is only which refs and live timers it
\* equals, so the new id is the smallest one that no live timer (live) has and no
\* ref of another binding (held) still holds.
NewTimerId(live, held) ==
  CHOOSE i \in 1..(MaxTimers + 1) :
    /\ \A tm \in live : tm.id # i
    /\ i \notin held
    /\ \A j \in 1..(i - 1) : j \in held \/ \E tm \in live : tm.id = j

\* Mutant: the default of debounceDelay is a positive delay.
DebounceDelayOfDelayed(opt) == IF opt.t = "undefined" THEN 2 ELSE opt.n
\* debounceDelay = 0 in the parameter list: the default stands in for undefined.
DebounceDelayOf(opt) == IF opt.t = "undefined" THEN 0 ELSE opt.n

\* Mutant: every delay other than 0 is debounced.
IsDebouncedNonZero(dd) == dd # 0
\* if (debounceDelay > 0)
IsDebounced(dd) == dd > 0

\* Mutant: the callback reads the watched values of the render before.
TimerSnapshotStale(w, prev) == prev
\* The watched values the timer callback's saveToStorage closes over: those of the
\* render whose effect set the timer (w), not those of the render before (prev).
TimerSnapshot(w, prev) == w

\* One run of the save effect for a render with the values (w, ex, to, nm, dd); the
\* cleanup of the previous run and the effect's own first lines clear the same timer
\* (clearTimeout acts on the host's timers, whichever binding set them).
\* An exception out of the effect aborts the commit and React unmounts the tree.
SaveEffectRun(w, ex, to, nm, dd) ==
  LET live == ClearTimeout(EffectCleanup(timers, debounceTimeoutRef), debounceTimeoutRef)
      others == ClearTimeout(EffectCleanup(other.timers, debounceTimeoutRef),
                             debounceTimeoutRef)
      id == NewTimerId(live \cup others, {other.debounceTimeoutRef})
  IN /\ other' = [other EXCEPT !.timers = others]
     /\ IF IsDebounced(dd)
        THEN /\ Cardinality(live \cup others) < MaxTimers
             /\ now + dd <= MaxTime
             /\ timers' = live \cup
                  {[id |-> id, due |-> now + dd, by |-> event',
                    watchedValues |-> TimerSnapshot(w, watchedValues),
                    exclude |-> ex, timeout |-> to, name |-> nm]}
             /\ debounceTimeoutRef' = id
             /\ calls' = <<>>
             /\ phase' = "mounted"
             /\ UNCHANGED <<storage, localStorage, lastValuesRef, persisted, isSavingRef>>
        ELSE /\ timers' = live
             /\ UNCHANGED debounceTimeoutRef
             /\ IF ~shouldSkipSave
                THEN /\ saveToStorage(w, ex, to, nm)
                     /\ phase' = IF saveToStorageThrows(w, ex) THEN "crashed" ELSE "mounted"
                ELSE /\ UNCHANGED <<storage, localStorage, lastValuesRef, persisted, isSavingRef>>
                     /\ phase' = "mounted"
                     /\ calls' = <<>>

\* The save effect of the mount commit, run right after the restore effect.
SaveEffect ==
  /\ phase = "restored"
  /\ event' = "saveEffect"
  /\ restoreProps' = NoRestoreProps
  /\ SaveEffectRun(watchedValues, exclude, timeout, name, debounceDelay)
  /\ UNCHANGED <<props, watchedValues, isRestoringRef, initializedRef, now,
                 form, storageOption, rerenders, raises>>

\* A value-change notification: useWatch returns a new object and the save effect
\* reruns.  (Should the restore effect rerun too, exclude being a new array, it
\* returns at once: RestoreGuard holds in every mounted phase.)
Notify ==
  /\ phase = "mounted"
  /\ event' = "notify"
  /\ UNCHANGED restoreProps
  /\ \E w \in SnapshotsOf(form) :
       /\ watchedValues' = w
       /\ SaveEffectRun(w, exclude, timeout, name, debounceDelay)
  /\ UNCHANGED <<props, isRestoringRef, initializedRef, now, form, storageOption, rerenders, raises>>

\* A re-render with other props (nm, ex, to, dd), the watched values being the same
\* object.  The restore effect reruns (its dependencies changed) and returns at its
\* first line when the guard holds; otherwise its body runs and the save effect of the
\* commit is the next step.  The save effect reruns when one of its dependencies
\* changed: name, timeout, debounceDelay, or exclude, by content or (fresh) by
\* identity alone.
Rerender ==
  /\ phase = "mounted"
  /\ rerenders < MaxRerenders
  /\ rerenders' = rerenders + 1
  /\ event' = "rerender"
  /\ UNCHANGED <<watchedValues, now, form, storageOption, raises>>
  /\ \E nm \in Names, ex \in ExcludeListsOf(form), to \in RerenderTimeouts,
        dd \in RerenderDelays :
       /\ name' = nm /\ exclude' = ex /\ timeout' = to /\ debounceDelay' = dd
       /\ debounceDelayProp' = Num(dd)
       /\ IF RestoreGuard(initializedRef, isRestoringRef)
          THEN /\ UNCHANGED <<restoreProps, isRestoringRef, initializedRef>>
               /\ \E fresh \in IF <<nm, ex, to, dd>> # <<name, exclude, timeout, debounceDelay>>
                               THEN {FALSE} ELSE BOOLEAN :
                    IF fresh \/ <<nm, ex, to, dd>> # <<name, exclude, timeout, debounceDelay>>
                    THEN SaveEffectRun(watchedValues, ex, to, nm, dd)
                    ELSE /\ UNCHANGED <<phase, storage, localStorage, lastValuesRef, persisted, timers,
                                        debounceTimeoutRef, isSavingRef, other>>
                         /\ calls' = <<>>
          ELSE /\ \E rp \in RestorePropsSets :
                    /\ restoreProps' = rp
                    /\ RestoreEffect(nm, ex, to, rp, initializedRef, lastValuesRef)
               /\ UNCHANGED <<timers, debounceTimeoutRef, isSavingRef, other>>

\* The host runs a due timer's callback; an exception out of it never reaches React.
TimerFire ==
  /\ phase \in {"mounted", "unmounted", "crashed"}
  /\ event' = "timer"
  /\ UNCHANGED restoreProps
  /\ \E tm \in timers :
       /\ now >= tm.due
       /\ timers' = timers \ {tm}
       /\ IF ~shouldSkipSave
          THEN saveToStorage(tm.watchedValues, tm.exclude, tm.timeout, tm.name)
          ELSE /\ UNCHANGED <<storage, localStorage, lastValuesRef, persisted, isSavingRef>>
               /\ calls' = <<>>
  /\ UNCHANGED <<phase, props, watchedValues, debounceTimeoutRef, isRestoringRef,
                 initializedRef, now, form, storageOption, rerenders, raises, other>>

\* clear(): an exception of removeItem goes to the caller.
Clear ==
  /\ phase = "mounted"
  /\ event' = "clear"
  /\ UNCHANGED restoreProps
  /\ IF "removeItem" \in raises
     THEN /\ UNCHANGED <<storage, localStorage, persisted>>
          /\ calls' = <<[op |-> "removeItem", key |-> clearStorageKey(name)]>> \o Raise
     ELSE /\ PutItem(clearStorageKey(name), Absent)
          /\ persisted' = [persisted EXCEPT ![clearStorageKey(name)] = Removed(@)]
          /\ calls' = <<[op |-> "removeItem", key |-> clearStorageKey(name)]>>
  /\ UNCHANGED <<phase, props, watchedValues, refs, timers, now, form, storageOption, rerenders, raises, other>>

\* The Storage Adapter starts or stops failing (quota reached, storage disabled).
Fault ==
  /\ phase \in {"mounted", "unmounted"}
  /\ \E fs \in FaultSets \ {raises} : raises' = fs
  /\ event' = "fault"
  /\ calls' = <<>>
  /\ UNCHANGED <<phase, props, watchedValues, refs, storage, localStorage, timers, now, restoreProps,
                 persisted, form, storageOption, rerenders, other>>

\* Teardown: the save effect's cleanup runs; it touches no ref, and the instance's
\* refs are out of reach from then on (the next mount creates new ones).  The
\* clearTimeout call is noted with (history) whether its timer was still pending.
Unmount ==
  /\ phase \in {"mounted", "crashed"}
  /\ phase' = "unmounted"
  /\ event' = "unmount"
  /\ restoreProps' = NoRestoreProps
  /\ timers' = EffectCleanup(timers, debounceTimeoutRef)
  /\ other' = [other EXCEPT !.timers = EffectCleanup(@, debounceTimeoutRef)]
  /\ watchedValues' = <<>>
  /\ UNCHANGED refs
  /\ calls' = IF debounceTimeoutRef # 0
              THEN <<[op |-> "clearTimeout", id |-> debounceTimeoutRef,
                      pending |-> \E tm \in timers : tm.id = debounceTimeoutRef]>>
              ELSE <<>>
  /\ UNCHANGED <<props, storage, localStorage, now, persisted, form, storageOption, rerenders, raises>>

\* The host turns to the other binding: the next events are that binding's.  A commit
\* (restore effect, then save effect) is not interrupted.
Switch ==
  /\ phase \in {"unmounted", "mounted", "crashed"}
  /\ other' = Session
  /\ phase' = other.phase /\ name' = other.name /\ exclude' = other.exclude
  /\ timeout' = other.timeout /\ debounceDelay' = other.debounceDelay
  /\ debounceDelayProp' = other.debounceDelayProp
  /\ watchedValues' = other.watchedValues
  /\ debounceTimeoutRef' = other.debounceTimeoutRef
  /\ isRestoringRef' = other.isRestoringRef /\ isSavingRef' = other.isSavingRef
  /\ lastValuesRef' = other.lastValuesRef /\ initializedRef' = other.initializedRef
  /\ restoreProps' = other.restoreProps /\ timers' = other.timers
  /\ event' = "switch"
  /\ calls' = <<>>
  /\ UNCHANGED <<storage, localStorage, now, persisted, form, storageOption, rerenders, raises>>

\* Time passes.
Tick ==
  /\ phase \in {"mounted", "unmounted", "crashed"}
  /\ now < MaxTime
  /\ now' = now + 1
  /\ event' = "tick"
  /\ UNCHANGED restoreProps
  /\ calls' = <<>>
  /\ UNCHANGED <<phase, props, watchedValues, refs, storage, localStorage, timers, persisted, form, storageOption, rerenders, raises, other>>

Next ==
  \/ Mount
  \/ SaveEffect
  \/ Notify
  \/ TimerFire
  \/ Clear
  \/ Unmount
  \/ Tick

Spec == Init /\ [][Next]_vars

\* The binding of a small form whose props change between renders.
InitConfig ==
  /\ form = "small"
  /\ Start
  /\ StorageSupplied
  /\ debounceDelay \in Delays \cup NonPositiveDelays
  /\ debounceDelayProp = Num(debounceDelay)
  /\ other = NoOther

NextConfig ==
  \/ Next
  \/ Rerender

SpecConfig == InitConfig /\ [][NextConfig]_vars

\* The binding of a small form over a Storage Adapter that can fail.
InitFault ==
  /\ form = "small"
  /\ Start
  /\ StorageSupplied
  /\ debounceDelay \in Delays \cup {1}
  /\ debounceDelayProp = Num(debounceDelay)
  /\ other = NoOther

NextFault ==
  \/ Next
  \/ Fault

SpecFault == InitFault /\ [][NextFault]_vars

\* Two bindings of small forms, named "f" and "g", on one Storage Adapter.
InitTwo ==
  /\ form = "small"
  /\ Start
  /\ StorageSupplied
  /\ exclude = <<>> /\ timeout = Num(2)
  /\ debounceDelay \in {0, 1}
  /\ debounceDelayProp = Num(debounceDelay)
  /\ other = Idle("g", <<>>, Undefined, 1)

NextTwo ==
  \/ Next
  \/ Switch

SpecTwo == InitTwo /\ [][NextTwo]_vars

\* The binding of a small form with or without the storage prop, both stores holding
\* what earlier writers left under the binding's key.
InitStore ==
  /\ form = "small"
  /\ Start
  /\ storageOption \in {"supplied", "undefined"}
  /\ \E r \in InitialRecords :
       localStorage = [k \in Keys |-> IF k = getStorageKey(name) THEN r ELSE Absent]
  /\ debounceDelay \in Delays
  /\ debounceDelayProp = Num(debounceDelay)
  /\ other = NoOther

SpecStore == InitStore /\ [][Next]_vars

\* The binding of a small form whose config has no debounceDelay, or a positive one.
InitDefault ==
  /\ form = "small"
  /\ Start
  /\ StorageSupplied
  /\ \E opt \in {Undefined, Num(2)} :
       /\ debounceDelayProp = opt
       /\ debounceDelay = DebounceDelayOf(opt)
  /\ other = NoOther

SpecDefault == InitDefault /\ [][Next]_vars

\* A binding that is never cleared or torn down, over a host that lets time pass and
\* runs every due timer.
NextLive ==
  \/ Mount
  \/ SaveEffect
  \/ Notify
  \/ TimerFire
  \/ Tick

SpecLive == Init /\ [][NextLive]_vars /\ WF_vars(TimerFire) /\ WF_vars(Tick)

\* ------------------------------------------------------- the FormPersist wrapper

\* The values of the wrapper's props that are not numbers: strings, arrays of
\* strings, and objects known by their identity (an adapter, a function, a node).
Str(s) == [t |-> "string", s |-> s]
Arr(items) == [t |-> "array", items |-> items]
Obj(id) == [t |-> "object", id |-> id]
\* The form instance useForm() returned.
FormInstance == [t |-> "form", control |-> Obj("control"), setValue |-> Obj("setValue")]

\* A prop that may be left out, or passed with one of the values vs.
OptionalProp(k, vs) == {<<>>} \cup {<<[k |-> k, v |-> v]>> : v \in vs}
\* The props objects a caller passes to FormPersist: form and formKey, and any of the
\* optional ones.
WrapperProps ==
  { <<[k |-> "form", v |-> FormInstance], [k |-> "formKey", v |-> Str(nm)]>>
      \o st \o ex \o to \o dd \o ch :
      nm \in Names,
      st \in OptionalProp("storage", {Obj("storage")}),
      ex \in OptionalProp("exclude", {Arr(<<"a">>)}),
      to \in OptionalProp("timeout", {Num(2)}),
      dd \in OptionalProp("debounceDelay", {Num(2)}),
      ch \in OptionalProp("children", {Obj("node")}) }

\* Mutant: children is passed on to the hook with the other props.
RestPropsWithChildren(wp) == SelectSeq(wp, LAMBDA e : e.k \notin {"form", "formKey"})
\* const { form, formKey, children, ...restProps } = props
RestProps(wp) == SelectSeq(wp, LAMBDA e : e.k \notin {"form", "formKey", "children"})
\* { ...o, ...src }: the entries of src assigned to o in order.
RECURSIVE Spread(_, _)
Spread(o, src) ==
  IF src = <<>> THEN o ELSE Spread(Assign(o, Head(src).k, Head(src).v), Tail(src))
\* The config FormPersist builds: { control: form.control, setValue: form.setValue, ...restProps }
FormPersistConfig(wp) ==
  Spread(<<[k |-> "control", v |-> Get(wp, "form").control],
           [k |-> "setValue", v |-> Get(wp, "form").setValue]>>,
         RestProps(wp))

\* The first render of <FormPersist {...wp} />: it calls useFormPersist(formKey, config)
\* and returns children; the hook destructures config, its defaults standing in for
\* what is undefined, and the commit's effects are the next steps.
Render ==
  /\ phase = "unmounted" /\ event = "init"
  /\ event' = "render"
  /\ \E wp \in WrapperProps :
       LET config == FormPersistConfig(wp)
       IN /\ calls' = <<[op |-> "FormPersist", props |-> wp],
                        [op |-> "useFormPersist", name |-> Get(wp, "formKey").s,
                         config |-> config],
                        [op |-> "return", value |-> Get(wp, "children")]>>
          /\ name' = Get(wp, "formKey").s
          /\ exclude' = IF Get(config, "exclude").t = "undefined"
                        THEN <<>> ELSE Get(config, "exclude").items
          /\ timeout' = Get(config, "timeout")
          /\ debounceDelayProp' = Get(config, "debounceDelay")
          /\ debounceDelay' = DebounceDelayOf(Get(config, "debounceDelay"))
          /\ storageOption' = IF Get(config, "storage").t = "undefined"
                              THEN "undefined" ELSE "supplied"
  /\ UNCHANGED <<phase, watchedValues, refs, storage, localStorage, timers, now,
                 restoreProps, persisted, form, rerenders, raises, other>>

\* A small form persisted through the wrapper, both stores holding a record under
\* the key of the name "f".
InitWrapper ==
  /\ form = "small"
  /\ Start
  /\ exclude = <<>> /\ timeout = Undefined
  /\ debounceDelayProp = Undefined /\ debounceDelay = DebounceDelayOf(debounceDelayProp)
  /\ storageOption = "undefined"
  /\ localStorage = [k \in Keys |->
                       IF k = getStorageKey(name)
                       THEN Json(<<[k |-> "a", v |-> "2"]>>) ELSE Absent]
  /\ other = NoOther

NextWrapper ==
  \/ Next
  \/ Render

SpecWrapper == InitWrapper /\ [][NextWrapper]_vars

\* ------------------------------------------------------------------ claims

\* The calls of one kind among cs, in order.
CallsOf(cs, op) == SelectSeq(cs, LAMBDA c : c.op = op)
\* The key the binding's record lives under, written out.
RecordKey == "react-hook-form-persist:" \o name
\* The entries of an object that ex does not name.
NonExcluded(o, ex) == SelectSeq(o, LAMBDA e : ~(\E i \in DOMAIN ex : ex[i] = e.k))
\* The field mapping of an object with every value as its JSON text.
TextFields(o) == {<<o[i].k, JSONstringifyValue(o[i].v)>> : i \in DOMAIN o}
\* The field mapping of a stored JSON text, the reserved key left out.
StoredFields(body) == {<<body[i].k, body[i].v>> : i \in {j \in DOMAIN body : body[j].k # ReservedKey}}
\* The options the restore props ask setValue for.
ExpectedOptions(rp) ==
  [shouldValidate |-> rp.validate, shouldDirty |-> rp.dirty, shouldTouch |-> rp.touch]
\* The setValue calls of cs as a set of <<field, text of the value, options>>.
SetValueFields(cs) ==
  {<<c.name, JSONstringifyValue(c.value)>> : c \in Range(CallsOf(cs, "setValue"))}

\* C1: with no timeout and an empty exclude list, mounting on a well-formed record R
\* calls setValue exactly once per field of R, with the stored value and the options
\* {shouldValidate: validate, shouldDirty: dirty, shouldTouch: touch}, for no other
\* field, and calls onDataRestored (when given) exactly once with R's fields.
C1_RestoreCorrectness ==
  (phase = "restored" /\ timeout = Undefined /\ exclude = <<>>
     /\ storage[RecordKey].kind = "json") =>
    LET R == storage[RecordKey].body
        sv == CallsOf(calls, "setValue")
        dr == CallsOf(calls, "onDataRestored")
    IN /\ SetValueFields(calls) = StoredFields(R)
       /\ Len(sv) = Cardinality(StoredFields(R))
       /\ \A j \in DOMAIN sv : sv[j].options = ExpectedOptions(restoreProps)
       /\ IF restoreProps.onDataRestored
          THEN /\ Len(dr) = 1
               /\ TextFields(dr[1].data) = StoredFields(R)
               /\ Len(dr[1].data) = Cardinality(StoredFields(R))
          ELSE dr = <<>>
C1_Witness ==
  /\ phase = "restored" /\ timeout = Undefined /\ exclude = <<>>
  /\ storage[RecordKey].kind = "json"
  /\ Len(CallsOf(calls, "setValue")) = 2
  /\ Len(CallsOf(calls, "onDataRestored")) = 1
  /\ restoreProps.touch

\* C2: two consecutive change notifications whose non-excluded fields are identical
\* produce at most one Storage Adapter write between them, in every configuration.
C2_IdempotentUnderNoChange ==
  [][ (event = "notify" /\ event' = "notify" /\ phase = "mounted" /\ debounceDelay = 0
         /\ NonExcluded(watchedValues', exclude) = NonExcluded(watchedValues, exclude))
      => ~(CallsOf(calls, "setItem") # <<>> /\ CallsOf(calls', "setItem") # <<>>) ]_vars

\* C3 as stated: with debounceDelay > 0 on an initialized binding, the timer that a
\* burst of notifications leaves writes exactly one record when it fires.
C3_ExactlyOneWritePerBurst ==
  [][ (debounceDelay > 0 /\ phase = "mounted" /\ initializedRef /\ event' = "timer"
         /\ \A tm \in timers : tm.by = "notify")
      => Len(CallsOf(calls', "setItem")) = 1 ]_vars

\* C3 amended: with debounceDelay = d > 0 on an initialized binding, a notification
\* writes nothing and leaves exactly one timer, due d after it and holding its
\* snapshot; a write happens only when that timer fires, no earlier than its due
\* time; the firing writes nothing when the snapshot's non-excluded fields are empty
\* or serialize like lastSavedSnapshot, and otherwise exactly one record, whose fields
\* are those of the last notification's snapshot.
C3_DebounceCoalescing ==
  [][ (debounceDelay > 0 /\ phase = "mounted" /\ initializedRef) =>
      /\ (event' = "notify" =>
            /\ CallsOf(calls', "setItem") = <<>>
            /\ storage' = storage
            /\ Cardinality(timers') = 1
            /\ \A tm \in timers' :
                 tm.due = now + debounceDelay /\ tm.watchedValues = watchedValues')
      /\ (event' = "timer" =>
            \E tm \in timers :
              /\ timers = {tm} /\ timers' = {}
              /\ now >= tm.due
              /\ tm.watchedValues = watchedValues
              /\ LET S == NonExcluded(watchedValues, exclude)
                     written == CallsOf(calls', "setItem")
                 IN IF S # <<>> /\ TextFields(S) # TextFields(lastValuesRef)
                    THEN /\ Len(written) = 1
                         /\ StoredFields(written[1].value)
                              = {f \in TextFields(S) : f[1] # ReservedKey /\ f[2] # "undefined"}
                    ELSE written = <<>> /\ storage' = storage)
      /\ (CallsOf(calls', "setItem") # <<>> => event' = "timer") ]_vars
C3_Witness ==
  /\ debounceDelay > 0 /\ phase = "mounted" /\ event = "timer"
  /\ Len(CallsOf(calls, "setItem")) = 1
  /\ Len(watchedValues) = 2

\* C4 as stated: no written record has a field that the exclude list names.
C4_NoExcludedFieldWritten ==
  \A i \in DOMAIN calls :
    calls[i].op = "setItem" =>
      \A j \in DOMAIN calls[i].value :
        ~(\E x \in DOMAIN exclude : exclude[x] = calls[i].value[j].k)

\* C4 amended: a written record has no field that the exclude list names, other than
\* the reserved key _savedAt, which the engine adds itself, holding the time of the
\* save, when a timeout is configured.
C4_ExcludedNeverPersisted ==
  \A i \in DOMAIN calls :
    calls[i].op = "setItem" =>
      \A j \in DOMAIN calls[i].value :
        LET e == calls[i].value[j]
        IN (\E x \in DOMAIN exclude : exclude[x] = e.k) =>
             /\ e.k = ReservedKey
             /\ timeout # Undefined
             /\ e.v = ToString(now)
C4_Witness ==
  /\ CallsOf(calls, "setItem") # <<>>
  /\ exclude = <<"b">>
  /\ \E i \in DOMAIN watchedValues :
       watchedValues[i].k = "b" /\ watchedValues[i].v # Undefined

\* C5: mounting on a record R calls setValue exactly for the fields of R that the
\* exclude list does not name, once each, while onDataRestored receives every field
\* of R, the excluded ones included.
C5_ExclusionOnRestore ==
  (phase = "restored" /\ storage[RecordKey].kind = "json") =>
    LET R == storage[RecordKey].body
        sv == CallsOf(calls, "setValue")
        dr == CallsOf(calls, "onDataRestored")
        kept == {f \in StoredFields(R) : ~(\E x \in DOMAIN exclude : exclude[x] = f[1])}
    IN /\ SetValueFields(calls) = kept
       /\ Len(sv) = Cardinality(kept)
       /\ restoreProps.onDataRestored =>
            /\ Len(dr) = 1
            /\ TextFields(dr[1].data) = StoredFields(R)
C5_Witness ==
  /\ phase = "restored" /\ storage[RecordKey].kind = "json"
  /\ exclude = <<"b">>
  /\ \E i \in DOMAIN storage[RecordKey].body : storage[RecordKey].body[i].k = "b"
  /\ Len(CallsOf(calls, "setValue")) = 1
  /\ Len(CallsOf(calls, "onDataRestored")) = 1
  /\ Len(CallsOf(calls, "onDataRestored")[1].data) = 2

\* C6: with a timeout > 0, mounting on a record stamped savedAt with
\* now - savedAt > timeout calls onTimeout (when given) once, then removes the record
\* once, calls neither setValue nor onDataRestored, leaves lastSavedSnapshot empty and
\* ends initialized; with now - savedAt <= timeout the record is restored and stays.
C6_Expiry ==
  [][ (phase = "unmounted" /\ event' = "mount" /\ Truthy(timeout)
         /\ storage[RecordKey].kind = "json"
         /\ \E i \in DOMAIN storage[RecordKey].body :
              storage[RecordKey].body[i].k = ReservedKey) =>
      LET R == storage[RecordKey].body
          savedAt == JSONparseValue(R[CHOOSE i \in DOMAIN R : R[i].k = ReservedKey].v).n
          kept == {f \in StoredFields(R) : ~(\E x \in DOMAIN exclude : exclude[x] = f[1])}
      IN IF now - savedAt > timeout.n
         THEN /\ calls' = <<[op |-> "getItem", key |-> RecordKey]>>
                          \o (IF restoreProps'.onTimeout THEN <<[op |-> "onTimeout"]>> ELSE <<>>)
                          \o <<[op |-> "removeItem", key |-> RecordKey]>>
              /\ storage'[RecordKey] = Absent
              /\ lastValuesRef' = <<>>
              /\ initializedRef' /\ ~isRestoringRef'
         ELSE /\ storage' = storage
              /\ CallsOf(calls', "removeItem") = <<>>
              /\ CallsOf(calls', "onTimeout") = <<>>
              /\ SetValueFields(calls') = kept
              /\ TextFields(lastValuesRef') = StoredFields(R)
              /\ initializedRef' /\ ~isRestoringRef' ]_vars
C6_Witness ==
  /\ phase = "restored" /\ Truthy(timeout)
  /\ calls = <<[op |-> "getItem", key |-> RecordKey], [op |-> "onTimeout"],
               [op |-> "removeItem", key |-> RecordKey]>>
  /\ storage[RecordKey] = Absent
  /\ now > StartTime

\* C7: with a timeout configured, mounting on a record that has no saved-at timestamp
\* restores it: setValue is called for its fields, onTimeout is not called and the
\* record is not removed.
C7_NoTimestampNoExpiry ==
  [][ (phase = "unmounted" /\ event' = "mount" /\ timeout # Undefined
         /\ storage[RecordKey].kind = "json"
         /\ \A i \in DOMAIN storage[RecordKey].body :
              storage[RecordKey].body[i].k # ReservedKey) =>
      /\ storage' = storage
      /\ CallsOf(calls', "onTimeout") = <<>>
      /\ CallsOf(calls', "removeItem") = <<>>
      /\ SetValueFields(calls')
           = {f \in StoredFields(storage[RecordKey].body) :
                ~(\E x \in DOMAIN exclude : exclude[x] = f[1])} ]_vars

\* The mapping an object denotes, insertion order forgotten.
Fields(o) == {<<o[i].k, o[i].v>> : i \in DOMAIN o}
\* Whether every value of an object has a JSON text.
JsonRepresentable(o) == \A i \in DOMAIN o : o[i].v # Undefined
\* The setValue calls of cs as a set of <<field, value>>.
SetValuePairs(cs) == {<<c.name, c.value>> : c \in Range(CallsOf(cs, "setValue"))}

\* C8 as stated: a fresh binding with no exclusion and no timeout, mounted on the
\* record saved from any non-empty snapshot S of JSON-representable values, calls
\* setValue once per field of S with an equal value and makes no other call.
C8_RoundTripAnyFieldName ==
  [][ (phase = "unmounted" /\ event' = "mount" /\ exclude = <<>> /\ timeout = Undefined
         /\ persisted[RecordKey].present
         /\ JsonRepresentable(persisted[RecordKey].values)) =>
      /\ SetValuePairs(calls') = Fields(persisted[RecordKey].values)
      /\ Len(CallsOf(calls', "setValue")) = Len(persisted[RecordKey].values) ]_vars

\* C8 amended: the round trip reproduces S exactly for every non-empty snapshot S of
\* JSON-representable values that has no field named _savedAt, the reserved key.
C8_RoundTrip ==
  [][ (phase = "unmounted" /\ event' = "mount" /\ exclude = <<>> /\ timeout = Undefined
         /\ persisted[RecordKey].present
         /\ JsonRepresentable(persisted[RecordKey].values)
         /\ \A i \in DOMAIN persisted[RecordKey].values :
              persisted[RecordKey].values[i].k # ReservedKey) =>
      /\ SetValuePairs(calls') = Fields(persisted[RecordKey].values)
      /\ Len(CallsOf(calls', "setValue")) = Len(persisted[RecordKey].values) ]_vars
C8_Witness ==
  /\ phase = "restored" /\ exclude = <<>> /\ timeout = Undefined
  /\ persisted[RecordKey].present
  /\ Len(persisted[RecordKey].values) = 2
  /\ JsonRepresentable(persisted[RecordKey].values)
  /\ SetValuePairs(calls) = Fields(persisted[RecordKey].values)
  /\ \E i \in DOMAIN persisted[RecordKey].values : persisted[RecordKey].values[i].v = Num(2)

\* C9: a save whose snapshot has no non-excluded field writes nothing and leaves
\* lastSavedSnapshot as it was, immediate or debounced, whatever lastSavedSnapshot is.
C9_EmptySnapshotNoWrite ==
  [][ ( \/ /\ event' \in {"notify", "saveEffect"}
           /\ NonExcluded(watchedValues', exclude) = <<>>
        \/ /\ event' = "timer"
           /\ \A tm \in timers \ timers' : NonExcluded(tm.watchedValues, tm.exclude) = <<>> )
      => /\ CallsOf(calls', "setItem") = <<>>
         /\ storage' = storage
         /\ lastValuesRef' = lastValuesRef ]_vars
C9_Witness ==
  /\ phase = "mounted" /\ event = "notify" /\ debounceDelay = 0 /\ initializedRef
  /\ watchedValues # <<>>
  /\ NonExcluded(watchedValues, exclude) = <<>>
  /\ lastValuesRef # <<>>
  /\ calls = <<>>

C11_ClearThenSameNoResave ==
  [][ (phase = "mounted" /\ event = "clear" /\ event' = "notify" /\ debounceDelay <= 0
         /\ ~persisted[RecordKey].present /\ persisted[RecordKey].values # <<>>
         /\ (\E t \in 0..MaxTime :
               lastValuesRef = Stamp(persisted[RecordKey].values, timeout, t))
         /\ NonExcluded(watchedValues', exclude) = persisted[RecordKey].values) =>
      /\ CallsOf(calls', "setItem") = <<>>
      /\ storage'[RecordKey] = Absent ]_vars

\* C12: in one binding lifetime (from mount to teardown) the restore runs once: the
\* getItem, the restoring setValue calls and the onDataRestored / onTimeout callbacks
\* happen only in the mount commit, each at most once (setValue at most once per
\* field), whatever re-renders and prop changes follow, and initialized never goes
\* back from true to false before the next mount.
C12_RestoreOnce ==
  [][ /\ (\E i \in DOMAIN calls' :
             calls'[i].op \in {"getItem", "setValue", "onDataRestored", "onTimeout"})
          => (phase = "unmounted" /\ event' = "mount")
      /\ Len(CallsOf(calls', "getItem")) <= 1
      /\ Len(CallsOf(calls', "onDataRestored")) <= 1
      /\ Len(CallsOf(calls', "onTimeout")) <= 1
      /\ \A i, j \in DOMAIN calls' :
           (calls'[i].op = "setValue" /\ calls'[j].op = "setValue" /\ i # j)
             => calls'[i].name # calls'[j].name
      /\ (initializedRef /\ event' # "mount") => initializedRef' ]_vars
C12_Witness ==
  /\ event = "rerender" /\ phase = "mounted" /\ initializedRef
  /\ name = "f" /\ Truthy(timeout)
  /\ storage[RecordKey].kind = "json"
  /\ \E i \in DOMAIN storage[RecordKey].body :
       /\ storage[RecordKey].body[i].k = ReservedKey
       /\ now - JSONparseValue(storage[RecordKey].body[i].v).n > timeout.n
  /\ calls = <<>>

\* C13: the restore step is complete before any save may occur: whenever the save
\* pathway runs (the save effect of a commit, or a debounce timer's callback)
\* initialized is true and restoring is false, and every setItem is issued by such a
\* run, never by the mount's restore step or before it.
C13_NoSaveBeforeRestore ==
  [][ /\ event' \in {"saveEffect", "notify", "rerender", "timer"}
           => (initializedRef /\ ~isRestoringRef)
      /\ CallsOf(calls', "setItem") # <<>>
           => /\ initializedRef /\ ~isRestoringRef
              /\ event' \in {"saveEffect", "notify", "rerender", "timer"}
              /\ phase \in {"restored", "mounted"} ]_vars
C13_Witness ==
  /\ event = "saveEffect" /\ phase = "mounted"
  /\ CallsOf(calls, "setItem") # <<>>
  /\ storage[RecordKey].kind = "json"
  /\ initializedRef /\ ~isRestoringRef

\* C14: mounting on a stored value that does not parse issues no setValue, invokes no
\* callback, raises no exception, and still completes: afterwards initialized is
\* true and restoring is false.
C14_CorruptRecordHandled ==
  (event = "mount" /\ storage[RecordKey] = Corrupt) =>
    /\ CallsOf(calls, "setValue") = <<>>
    /\ CallsOf(calls, "onDataRestored") = <<>>
    /\ CallsOf(calls, "onTimeout") = <<>>
    /\ CallsOf(calls, "throw") = <<>>
    /\ initializedRef /\ ~isRestoringRef

\* C15: a save whose setItem raises leaves lastSavedSnapshot unchanged and the saving
\* flag cleared, and on a binding that is still mounted the next save of a non-empty,
\* changed snapshot (at its notification, or when its debounce timer fires) issues a
\* setItem again.
C15_FailedWriteSelfHeals ==
  [][ /\ (CallsOf(calls', "setItem") # <<>> /\ CallsOf(calls', "throw") # <<>>)
           => (lastValuesRef' = lastValuesRef /\ ~isSavingRef')
      /\ (phase = "mounted" /\ initializedRef /\ ~isRestoringRef
             /\ \/ event' = "notify" /\ debounceDelay <= 0
                \/ event' = "timer" /\ watchedValues' = watchedValues
             /\ NonExcluded(watchedValues', exclude) # <<>>
             /\ valuesHaveChanged(NonExcluded(watchedValues', exclude), lastValuesRef))
           => CallsOf(calls', "setItem") # <<>> ]_vars

\* C16: teardown cancels the pending save: the teardown step leaves no live timer of
\* the binding, no timer is live while the binding is torn down, and no setItem is
\* issued from teardown until a fresh binding mounts.
C16_TeardownCancelsPendingSave ==
  [][ /\ event' = "unmount" => timers' = {}
      /\ phase = "unmounted" => timers = {}
      /\ (phase = "unmounted" \/ event' = "unmount")
           => CallsOf(calls', "setItem") = <<>> ]_vars
C16_Witness ==
  /\ event = "unmount" /\ phase = "unmounted"
  /\ \E i \in DOMAIN calls : calls[i].op = "clearTimeout" /\ calls[i].pending
  /\ timers = {}

\* C17: with debounceDelay <= 0 (zero or negative) the save effect of the mount commit
\* and of every change notification schedules no timer and, when the filtered
\* snapshot is non-empty and differs from lastSavedSnapshot, writes it within that
\* step: one setItem under the binding's key whose fields are the snapshot's.
C17_ImmediateSave ==
  [][ (debounceDelay <= 0 /\ event' \in {"saveEffect", "notify"}
         /\ initializedRef /\ ~isRestoringRef /\ ~isSavingRef) =>
      LET S == NonExcluded(watchedValues', exclude)
          written == CallsOf(calls', "setItem")
      IN /\ timers' = {}
         /\ (S # <<>> /\ TextFields(S) # TextFields(lastValuesRef)) =>
              /\ Len(written) = 1
              /\ written[1].key = RecordKey
              /\ StoredFields(written[1].value)
                   = {f \in TextFields(S) : f[1] # ReservedKey /\ f[2] # "undefined"}
              /\ storage'[RecordKey] = Json(written[1].value) ]_vars
C17_Witness ==
  /\ debounceDelay < 0 /\ event = "notify" /\ phase = "mounted"
  /\ Len(CallsOf(calls, "setItem")) = 1
  /\ lastValuesRef # <<>>
  /\ timers = {}

KeySet(o) == {o[i].k : i \in DOMAIN o}

\* C19 as stated: a record written while a timeout is configured has the keys of the
\* saved snapshot and _savedAt, holding the time of the save; a record written while
\* none is configured has exactly the keys of the saved snapshot.
C19_RecordKeysAreSnapshotKeys ==
  [][ \A i \in DOMAIN calls' :
        calls'[i].op = "setItem" =>
          LET rec == calls'[i].value
              S == NonExcluded(watchedValues', exclude')
          IN IF timeout' # Undefined
             THEN /\ KeySet(rec) = KeySet(S) \cup {ReservedKey}
                  /\ <<ReservedKey, ToString(now)>> \in Fields(rec)
             ELSE KeySet(rec) = KeySet(S) ]_vars

\* C19 amended: the fields of a written record are the fields of the saved snapshot
\* whose value has a JSON text (a field whose value is undefined is left out), and
\* besides them, exactly when a timeout is configured (any value, 0 included), the
\* key _savedAt holding the time of the save, in place of any field of that name.
C19_StampIffTimeoutConfigured ==
  [][ \A i \in DOMAIN calls' :
        calls'[i].op = "setItem" =>
          LET rec == calls'[i].value
              S == NonExcluded(watchedValues', exclude')
              kept == {f \in TextFields(S) : f[2] # "undefined"}
              expected == IF timeout' # Undefined
                          THEN {f \in kept : f[1] # ReservedKey}
                                 \cup {<<ReservedKey, ToString(now)>>}
                          ELSE kept
          IN /\ Fields(rec) = expected
             /\ Len(rec) = Cardinality(expected) ]_vars
C19_Witness ==
  /\ timeout = Num(0)
  /\ Len(CallsOf(calls, "setItem")) = 1
  /\ <<ReservedKey, ToString(now)>> \in Fields(CallsOf(calls, "setItem")[1].value)
  /\ Len(CallsOf(calls, "setItem")[1].value) = 3

\* The key of the other binding's record, written out.
OtherKey == "react-hook-form-persist:" \o other.name

C23_DefaultDelayIs300 ==
  [][ (debounceDelayProp = Undefined /\ event' = "notify") =>
        /\ CallsOf(calls', "setItem") = <<>>
        /\ \E tm \in timers' : tm.due = now + 300 ]_vars

\* C24: mounting while the store holds nothing under the binding's key issues the
\* getItem and nothing else (no setValue, no removeItem, no onDataRestored, no
\* onTimeout), leaves the store and the empty lastSavedSnapshot as they are, and ends
\* with initialized true and restoring false.
C24_AbsentRecord ==
  [][ (phase = "unmounted" /\ event' = "mount" /\ storage[RecordKey] = Absent) =>
      /\ calls' = <<[op |-> "getItem", key |-> RecordKey]>>
      /\ storage' = storage
      /\ lastValuesRef' = <<>>
      /\ initializedRef' /\ ~isRestoringRef'
      /\ phase' = "restored" ]_vars
C24_Witness ==
  /\ event = "mount" /\ phase = "restored"
  /\ storage[RecordKey] = Absent
  /\ calls = <<[op |-> "getItem", key |-> RecordKey]>>
  /\ restoreProps.onDataRestored /\ restoreProps.onTimeout /\ Truthy(timeout)
  /\ lastValuesRef = <<>> /\ initializedRef
  /\ persisted[RecordKey].values # <<>>

\* The calls of cs made on the Storage Adapter.
AdapterCalls(cs) == SelectSeq(cs, LAMBDA c : c.op \in {"getItem", "setItem", "removeItem"})

\* C25: a getItem, setItem or removeItem that raises is the last thing its step does:
\* the exception leaves the operation at once (the mount or save effect, the timer
\* callback, or clear()), the failing call is not repeated, no other store is tried
\* (window.localStorage is not touched when an adapter is supplied), no store changes
\* and lastSavedSnapshot stays as it is (empty, in a mount); an exception out of an
\* effect takes the component down.
C25_AdapterFailurePropagates ==
  [][ /\ \A i \in DOMAIN calls' :
           calls'[i].op \in raises =>
             /\ i + 1 = Len(calls')
             /\ calls'[i + 1].op = "throw"
             /\ Len(CallsOf(calls', calls'[i].op)) = 1
             /\ storage' = storage /\ localStorage' = localStorage
             /\ lastValuesRef' = (IF event' = "mount" THEN <<>> ELSE lastValuesRef)
             /\ event' \in {"mount", "saveEffect", "notify"} => phase' = "crashed"
             /\ event' \in {"timer", "clear"} => phase' = phase
      /\ localStorage' = localStorage
      /\ (event' = "mount" /\ "getItem" \in raises) =>
           (AdapterCalls(calls') = <<[op |-> "getItem", key |-> RecordKey]>>
              /\ CallsOf(calls', "throw") # <<>>)
      /\ (event' = "clear" /\ "removeItem" \in raises) =>
           (AdapterCalls(calls') = <<[op |-> "removeItem", key |-> RecordKey]>>
              /\ CallsOf(calls', "throw") # <<>>) ]_vars
C25_Witness ==
  /\ event = "timer" /\ raises = {"setItem"}
  /\ Len(CallsOf(calls, "setItem")) = 1
  /\ calls[Len(calls)].op = "throw"
  /\ storage[RecordKey].kind = "json"
  /\ TextFields(watchedValues) # StoredFields(storage[RecordKey].body)

\* The wrapper's props that belong to the hook's config.
PassedThrough(wp) == KeySet(wp) \ {"form", "formKey", "children"}

\* C26: rendering FormPersist with the props P calls useFormPersist once, with the name
\* P.formKey and a config that holds control = P.form.control, setValue =
\* P.form.setValue, every other prop of P except children with P's value, and no
\* other key; it returns P.children (undefined, which renders nothing, when P has
\* none); and the hook then runs with the props a direct call with that name and
\* config has.
C26_WrapperEquivalence ==
  [][ event' = "render" =>
      LET P == calls'[1].props
          call == calls'[2]
          ret == calls'[3]
      IN /\ Len(calls') = 3
         /\ call.op = "useFormPersist" /\ ret.op = "return"
         /\ call.name = Get(P, "formKey").s
         /\ Get(call.config, "control") = Get(P, "form").control
         /\ Get(call.config, "setValue") = Get(P, "form").setValue
         /\ KeySet(call.config) = {"control", "setValue"} \cup PassedThrough(P)
         /\ Len(call.config) = 2 + Cardinality(PassedThrough(P))
         /\ \A k \in PassedThrough(P) : Get(call.config, k) = Get(P, k)
         /\ ret.value = (IF Has(P, "children") THEN Get(P, "children") ELSE Undefined)
         /\ name' = Get(P, "formKey").s
         /\ exclude' = (IF Has(P, "exclude") THEN Get(P, "exclude").items ELSE <<>>)
         /\ timeout' = (IF Has(P, "timeout") THEN Get(P, "timeout") ELSE Undefined)
         /\ debounceDelay' = (IF Has(P, "debounceDelay") THEN Get(P, "debounceDelay").n ELSE 0)
         /\ storageOption' = (IF Has(P, "storage") THEN "supplied" ELSE "undefined")
         /\ UNCHANGED <<phase, refs, storage, localStorage, timers>> ]_vars
C26_Witness ==
  /\ event = "render" /\ Len(calls) = 3
  /\ calls[2].name = "g"
  /\ KeySet(calls[2].config) = {"control", "setValue", "storage", "exclude", "timeout", "debounceDelay"}
  /\ calls[3].value = Obj("node")
  /\ name = "g" /\ exclude = <<"a">> /\ timeout = Num(2) /\ debounceDelay = 2
  /\ storageOption = "supplied"

\* C27: a change notification that arrives while restoring is true, or initialized is
\* false, or saving is true is dropped outright: it writes nothing and schedules no
\* timer, whether debounceDelay is positive or not.
C27_FilteredAtNotification ==
  [][ (event' = "notify" /\ (isRestoringRef \/ ~initializedRef \/ isSavingRef)) =>
      /\ CallsOf(calls', "setItem") = <<>>
      /\ timers' \subseteq timers
      /\ debounceTimeoutRef' = debounceTimeoutRef ]_vars

\* C28: restoring and saving are never both true; a save request made while saving is
\* true (a timer firing, a notification of an undebounced binding) writes nothing and
\* changes no state of the binding; and between events, on a mounted binding, both
\* flags are false.
C28_FlagExclusion ==
  [][ /\ ~(isRestoringRef' /\ isSavingRef')
      /\ (isSavingRef /\ (event' = "timer" \/ (event' = "notify" /\ debounceDelay <= 0))) =>
           /\ calls' = <<>>
           /\ UNCHANGED <<storage, localStorage, lastValuesRef, isSavingRef, isRestoringRef,
                          initializedRef>>
      /\ phase' = "mounted" => (~isRestoringRef' /\ ~isSavingRef') ]_vars

\* C29: lastSavedSnapshot changes only on success.  A mount leaves the new binding's
\* lastSavedSnapshot holding the record's fields when the restore applies a record,
\* and empty otherwise (no record, an expired record that is removed, an exception).
\* After that it changes only in a step whose save wrote to the Storage Adapter: a
\* skipped save (empty or unchanged snapshot), a dropped notification, a save whose
\* setItem raised, clear(), teardown and the passing of time leave it as it is.
C29_LastSavedChangesOnSuccess ==
  [][ /\ event' = "mount" =>
           LET rec == storage[RecordKey]
               applied == /\ rec.kind = "json"
                          /\ CallsOf(calls', "removeItem") = <<>>
                          /\ CallsOf(calls', "throw") = <<>>
           IN IF applied
              THEN TextFields(lastValuesRef') = StoredFields(rec.body)
              ELSE lastValuesRef' = <<>>
      /\ (event' # "mount" /\ lastValuesRef' # lastValuesRef) =>
           /\ event' \in {"saveEffect", "notify", "timer"}
           /\ Len(CallsOf(calls', "setItem")) = 1
           /\ CallsOf(calls', "throw") = <<>>
           /\ storage'[RecordKey] = Json(CallsOf(calls', "setItem")[1].value)
      /\ event' \in {"clear", "unmount", "tick", "fault"} => lastValuesRef' = lastValuesRef
      /\ CallsOf(calls', "throw") # <<>> =>
           lastValuesRef' = (IF event' = "mount" THEN <<>> ELSE lastValuesRef) ]_vars
C29_Witness ==
  /\ event = "timer" /\ phase = "mounted" /\ timeout = Undefined
  /\ calls = <<>>
  /\ lastValuesRef # <<>>
  /\ TextFields(NonExcluded(watchedValues, exclude)) = TextFields(lastValuesRef)
  /\ storage[RecordKey] = Absent

\* C30: after every save that wrote, lastSavedSnapshot holds exactly the field mapping
\* that was persisted, the non-excluded live fields, and in no reachable state does it
\* hold the key _savedAt that the engine adds, with or without a timeout (the form
\* here has no field of that name).
C30_LastSavedIsSnapshot ==
  [][ /\ (CallsOf(calls', "setItem") # <<>> /\ CallsOf(calls', "throw") = <<>>)
           => Fields(lastValuesRef') = Fields(NonExcluded(watchedValues', exclude'))
      /\ ~Has(lastValuesRef', ReservedKey) ]_vars

\* Whether two snapshots differ as the Change Detector is specified: their sets of
\* field names differ, or a shared field's serialized value does.
Differ(a, b) ==
  \/ KeySet(a) # KeySet(b)
  \/ \E k \in KeySet(a) \cap KeySet(b) :
       JSONstringifyValue(Get(a, k)) # JSONstringifyValue(Get(b, k))

\* C31: whenever the save logic runs on a non-empty candidate (the non-excluded
\* watched fields), it writes if and only if the candidate and lastSavedSnapshot have
\* different sets of field names or a shared field with different serialized values,
\* whatever the insertion order of the fields; when it does not write, both
\* snapshots are left as they were.
C31_ChangeDetector ==
  [][ /\ (event' \in {"saveEffect", "notify"} /\ debounceDelay <= 0 /\ ~isSavingRef) =>
           LET cand == NonExcluded(watchedValues', exclude)
           IN /\ cand # <<>> =>
                   (CallsOf(calls', "setItem") # <<>> <=> Differ(cand, lastValuesRef))
              /\ CallsOf(calls', "setItem") = <<>> => lastValuesRef' = lastValuesRef
      /\ (event' = "timer" /\ ~isSavingRef) =>
           LET cand == NonExcluded(watchedValues, exclude)
           IN /\ cand # <<>> =>
                   (CallsOf(calls', "setItem") # <<>> <=> Differ(cand, lastValuesRef))
              /\ CallsOf(calls', "setItem") = <<>>
                   => (lastValuesRef' = lastValuesRef /\ watchedValues' = watchedValues) ]_vars
C31_Witness ==
  /\ event = "notify" /\ phase = "mounted" /\ debounceDelay = 0
  /\ calls = <<>>
  /\ Len(watchedValues) = 2 /\ exclude = <<>>
  /\ watchedValues # lastValuesRef
  /\ Fields(watchedValues) = Fields(lastValuesRef)

\* C32: with any timeout configured, 0 included, mounting on a record stamped savedAt
\* with now - savedAt > timeout treats it as expired: onTimeout (when given) is
\* called, the record is removed and no setValue is issued.
C32_ExpiryForEveryTimeout ==
  [][ (phase = "unmounted" /\ event' = "mount" /\ timeout # Undefined
         /\ storage[RecordKey].kind = "json"
         /\ \E i \in DOMAIN storage[RecordKey].body :
              /\ storage[RecordKey].body[i].k = ReservedKey
              /\ now - JSONparseValue(storage[RecordKey].body[i].v).n > timeout.n) =>
      /\ CallsOf(calls', "setValue") = <<>>
      /\ Len(CallsOf(calls', "removeItem")) = 1
      /\ Len(CallsOf(calls', "onTimeout")) = (IF restoreProps'.onTimeout THEN 1 ELSE 0)
      /\ storage'[RecordKey] = Absent ]_vars

\* C33: at most one scheduled save is live, and it is the one debounceTimeoutRef
\* holds.  A notification with debounceDelay > 0 leaves exactly one timer, the new one;
\* a notification or prop change with debounceDelay <= 0 leaves none, so a change of
\* debounceDelay from positive to zero cancels the pending save; and the timer that
\* fires is the live one, made by the latest run of the save effect (it holds the
\* current snapshot and props), never one that was cancelled.
C33_AtMostOnePendingSave ==
  [][ /\ Cardinality(timers') <= 1
      /\ \A tm \in timers' : tm.id = debounceTimeoutRef'
      /\ event' = "notify" =>
           IF debounceDelay > 0
           THEN \E tm \in timers' :
                  /\ timers' = {tm}
                  /\ tm.due = now + debounceDelay
                  /\ tm.watchedValues = watchedValues'
           ELSE timers' = {}
      /\ (event' = "rerender" /\ debounceDelay' <= 0 /\ debounceDelay > 0) => timers' = {}
      /\ (event' = "rerender" /\ debounceDelay' > 0 /\ debounceDelay <= 0) =>
           \E tm \in timers' : timers' = {tm} /\ tm.due = now + debounceDelay'
      /\ event' = "timer" =>
           \E tm \in timers :
             /\ timers = {tm} /\ timers' = {}
             /\ tm.id = debounceTimeoutRef
             /\ tm.watchedValues = watchedValues
             /\ <<tm.name, tm.exclude, tm.timeout>> = <<name, exclude, timeout>> ]_vars
C33_Witness ==
  /\ event = "rerender" /\ phase = "mounted" /\ debounceDelay <= 0
  /\ timers = {} /\ debounceTimeoutRef # 0
  /\ now = StartTime
  /\ CallsOf(calls, "setItem") # <<>>

\* The stored record has exactly the non-excluded fields of the watched snapshot.
Mirrored ==
  /\ storage[RecordKey].kind = "json"
  /\ StoredFields(storage[RecordKey].body) = TextFields(NonExcluded(watchedValues, exclude))

C35_RestoreTriggersNoSave ==
  [][ ( /\ phase = "restored" /\ event' = "saveEffect"
        /\ storage[RecordKey].kind = "json"
        /\ watchedValues # <<>>
        /\ Differ(watchedValues, lastValuesRef) )
      => ( /\ CallsOf(calls', "setItem") = <<>>
           /\ storage' = storage ) ]_vars

\* C36: a debounced save scheduled before clear() that fires right after clear() has
\* returned, no notification having arrived in between, writes nothing: the record
\* stays absent.
C36_ClearNotUndone ==
  [][ ( /\ event = "clear" /\ storage[RecordKey].kind = "absent"
        /\ event' = "timer" )
      => ( /\ CallsOf(calls', "setItem") = <<>>
           /\ storage'[RecordKey].kind = "absent" ) ]_vars

\* C37: right after a save, a notification whose snapshot differs from the saved one only in
\* fields named in exclude produces no write and leaves lastValuesRef as it was,
\* whether a timeout is configured or not.
C37_ExcludedChangesCauseNoWrite ==
  [][ ( /\ phase = "mounted" /\ event' = "notify" /\ debounceDelay <= 0
        /\ exclude # <<>> /\ watchedValues' # watchedValues
        /\ event \in {"notify", "saveEffect"} /\ CallsOf(calls, "setItem") # <<>>
        /\ ~Differ(NonExcluded(watchedValues', exclude), NonExcluded(watchedValues, exclude)) )
      => ( /\ CallsOf(calls', "setItem") = <<>>
           /\ lastValuesRef' = lastValuesRef ) ]_vars

\* C38: a binding that has met an unparseable record at its initialization is not left
\* in a state where its save logic is skipped: it is initialized and not restoring,
\* so the next non-empty snapshot will replace the corrupt record.
C38_CorruptRecordDoesNotDisable ==
  (phase # "unmounted" /\ storage[RecordKey] = Corrupt) => ~shouldSkipSave

\* C39: restoring a record that contains _savedAt issues no setValue for the key
\* _savedAt, and the mapping handed to onDataRestored does not contain _savedAt.
C39_ReservedKeyNeverReachesForm ==
  ( /\ event = "mount"
    /\ storage[RecordKey].kind = "json" /\ Has(storage[RecordKey].body, ReservedKey) )
  => /\ \A c \in Range(CallsOf(calls, "setValue")) : c.name # ReservedKey
     /\ \A c \in Range(CallsOf(calls, "onDataRestored")) : ~Has(c.data, ReservedKey)
C39_Witness ==
  /\ event = "mount" /\ phase = "restored"
  /\ storage[RecordKey].kind = "json" /\ Has(storage[RecordKey].body, ReservedKey)
  /\ timeout # Undefined
  /\ Len(CallsOf(calls, "setValue")) = 1
  /\ Len(CallsOf(calls, "onDataRestored")) = 1

\* C40: a re-render that changes neither the watched values nor any prop, exclude being
\* left at its default, leaves a pending debounced save alone: a timer stays pending
\* and is due when it was due before.
C40_RerenderKeepsPendingSave ==
  [][ ( /\ event' = "rerender" /\ props' = props /\ watchedValues' = watchedValues
        /\ exclude = <<>> /\ timers # {} )
      => ( /\ timers' # {}
           /\ \A tn \in timers' : \E tm \in timers : tn.due = tm.due ) ]_vars

====
